---- MODULE Spec2Model ----
(***************************************************************************)
(* jsonlogprint: a stdin-to-stdout filter that rewrites JSON log lines as  *)
(* logfmt and passes every other line through.  The model follows          *)
(* src/jsonlogprint/src/main.rs (transform_lines, process_line,            *)
(* json_to_logfmt, try_format_datetime, display_value_recursive),          *)
(* deser.rs (IndexMapSeed) and styler.rs (Styler).                         *)
(*                                                                         *)
(* Text is a sequence of one-character strings.  Integers of the program   *)
(* are 64 bits wide and do not fit TLC's integers, so an i64 is a          *)
(* sign and a sequence of decimal digit characters.                        *)
(***************************************************************************)
EXTENDS Integers, Sequences, FiniteSets, TLC

(***************************************************************************)
(* Characters                                                              *)
(***************************************************************************)
LF == "\n"
ESC == "ESC"
BAD == "BAD"
IOERR == "EIO"
QUOTE == "\""
BSLASH == "\\"
SP == " "

DigitChars == <<"0", "1", "2", "3", "4", "5", "6", "7", "8", "9">>

IsDigit(c) == \E i \in 1..10 : DigitChars[i] = c

DigitVal(c) == (CHOOSE i \in 1..10 : DigitChars[i] = c) - 1

DigitChar(n) == DigitChars[n + 1]

Contains(s, c) == \E i \in 1..Len(s) : s[i] = c

RECURSIVE Flatten(_)
Flatten(ss) == IF ss = <<>> THEN <<>> ELSE Head(ss) \o Flatten(Tail(ss))

RECURSIVE CountChar(_, _)
CountChar(s, c) ==
    IF s = <<>> THEN 0
    ELSE (IF Head(s) = c THEN 1 ELSE 0) + CountChar(Tail(s), c)

(***************************************************************************)
(* JsonValue (deser.rs): String, Number, Bool, Null, Object, Array and the *)
(* tombstone Removed.  A Number keeps what serde_json::Number keeps: the   *)
(* variant (PosInt holds a u64, NegInt a negative i64, Float an f64) and   *)
(* the digits; Display prints them back.                                   *)
(***************************************************************************)
VString(s) == [t |-> "String", s |-> s]
VNumber(n) == [t |-> "Number", n |-> n]
VBool(b) == [t |-> "Bool", b |-> b]
VNull == [t |-> "Null"]
VObject(m) == [t |-> "Object", m |-> m]
VArray(a) == [t |-> "Array", a |-> a]
Removed == [t |-> "Removed"]

\* IndexMap::get_index_of: the 1-based slot of key k, 0 when absent.
IndexOf(m, k) ==
    IF \E i \in 1..Len(m) : m[i].k = k
    THEN CHOOSE i \in 1..Len(m) : m[i].k = k
    ELSE 0

\* IndexMap::insert: a new key is appended; an existing key keeps its slot
\* and takes the new value.
Insert(m, k, v) ==
    IF IndexOf(m, k) = 0
    THEN Append(m, [k |-> k, v |-> v])
    ELSE [m EXCEPT ![IndexOf(m, k)] = [k |-> k, v |-> v]]

(***************************************************************************)
(* serde_json, as far as the characters of the inputs exercise it.         *)
(* A parse result is [ok, v, i]: i is the position after what was read.    *)
(***************************************************************************)
IsWs(c) == c = SP \/ c = "\t" \/ c = "\r"

RECURSIVE SkipWs(_, _)
SkipWs(s, i) ==
    IF i <= Len(s) /\ IsWs(s[i]) THEN SkipWs(s, i + 1) ELSE i

Fail(i) == [ok |-> FALSE, v |-> VNull, i |-> i]

\* The characters of a string literal from position i (after the opening
\* quote) to the closing quote.  esc: an escape was decoded, so the text
\* cannot be borrowed from the line.  A raw control character is an error.
RECURSIVE ScanStr(_, _, _, _)
ScanStr(s, i, acc, esc) ==
    IF i > Len(s) THEN [ok |-> FALSE, s |-> acc, i |-> i, esc |-> esc]
    ELSE IF s[i] = QUOTE THEN [ok |-> TRUE, s |-> acc, i |-> i + 1, esc |-> esc]
    ELSE IF s[i] = BSLASH THEN
        IF i + 1 > Len(s) THEN [ok |-> FALSE, s |-> acc, i |-> i, esc |-> esc]
        ELSE IF s[i + 1] = QUOTE THEN ScanStr(s, i + 2, Append(acc, QUOTE), TRUE)
        ELSE IF s[i + 1] = BSLASH THEN ScanStr(s, i + 2, Append(acc, BSLASH), TRUE)
        ELSE IF s[i + 1] = "n" THEN ScanStr(s, i + 2, Append(acc, LF), TRUE)
        ELSE IF s[i + 1] = "u" /\ i + 5 <= Len(s)
                /\ SubSeq(s, i + 2, i + 5) = <<"0", "0", "1", "b">>
            THEN ScanStr(s, i + 6, Append(acc, ESC), TRUE)
        ELSE [ok |-> FALSE, s |-> acc, i |-> i, esc |-> esc]
    ELSE IF s[i] = ESC \/ s[i] = "\t" \/ s[i] = "\r"
        THEN [ok |-> FALSE, s |-> acc, i |-> i, esc |-> esc]
    ELSE ScanStr(s, i + 1, Append(acc, s[i]), esc)

RECURSIVE ScanDigits(_, _)
ScanDigits(s, i) ==
    IF i <= Len(s) /\ IsDigit(s[i]) THEN ScanDigits(s, i + 1) ELSE i

\* Is the digit string a greater than the digit string b (no leading zeros)?
RECURSIVE LexGt(_, _)
LexGt(a, b) ==
    IF a = <<>> THEN FALSE
    ELSE IF DigitVal(Head(a)) # DigitVal(Head(b))
        THEN DigitVal(Head(a)) > DigitVal(Head(b))
    ELSE LexGt(Tail(a), Tail(b))

DigitsGt(a, b) ==
    IF Len(a) # Len(b) THEN Len(a) > Len(b) ELSE LexGt(a, b)

I64_MAX == <<"9", "2", "2", "3", "3", "7", "2", "0", "3", "6",
             "8", "5", "4", "7", "7", "5", "8", "0", "7">>

\* A number literal at position i: an optional minus, an integer part with no
\* leading zero, an optional fraction.  "-0" is the float -0.0.
ParseNumber(s, i) ==
    LET neg == s[i] = "-"
        j == IF neg THEN i + 1 ELSE i
        k == ScanDigits(s, j)
        int == SubSeq(s, j, k - 1)
        hasFrac == k <= Len(s) /\ s[k] = "."
        e == IF hasFrac THEN ScanDigits(s, k + 1) ELSE k
        frac == IF hasFrac THEN SubSeq(s, k + 1, e - 1) ELSE <<>>
    IN  IF int = <<>> THEN Fail(i)
        ELSE IF Len(int) > 1 /\ int[1] = "0" THEN Fail(i)
        ELSE IF hasFrac /\ frac = <<>> THEN Fail(i)
        ELSE IF hasFrac THEN
            [ok |-> TRUE, i |-> e,
             v |-> VNumber([kind |-> "Float", neg |-> neg, int |-> int, frac |-> frac])]
        ELSE IF neg /\ int = <<"0">> THEN
            [ok |-> TRUE, i |-> e,
             v |-> VNumber([kind |-> "Float", neg |-> TRUE, int |-> int, frac |-> <<"0">>])]
        ELSE
            [ok |-> TRUE, i |-> e,
             v |-> VNumber([kind |-> IF neg THEN "NegInt" ELSE "PosInt",
                            neg |-> neg, int |-> int, frac |-> <<>>])]

ParseLiteral(s, i, word, v) ==
    IF i + Len(word) - 1 <= Len(s) /\ SubSeq(s, i, i + Len(word) - 1) = word
    THEN [ok |-> TRUE, v |-> v, i |-> i + Len(word)]
    ELSE Fail(i)

RECURSIVE ParseValue(_, _)
RECURSIVE ParseMembers(_, _, _, _)
RECURSIVE ParseElems(_, _, _, _)

\* One JsonValue (the untagged enum: the first variant the value fits).
ParseValue(s, i0) ==
    LET i == SkipWs(s, i0) IN
    IF i > Len(s) THEN Fail(i)
    ELSE IF s[i] = QUOTE THEN
        LET r == ScanStr(s, i + 1, <<>>, FALSE)
        IN  IF r.ok THEN [ok |-> TRUE, v |-> VString(r.s), i |-> r.i] ELSE Fail(r.i)
    ELSE IF s[i] = "{" THEN
        LET r == ParseMembers(s, i + 1, TRUE, <<>>)
        IN  IF r.ok THEN [ok |-> TRUE, v |-> VObject(r.m), i |-> r.i] ELSE Fail(r.i)
    ELSE IF s[i] = "[" THEN
        LET r == ParseElems(s, i + 1, TRUE, <<>>)
        IN  IF r.ok THEN [ok |-> TRUE, v |-> VArray(r.a), i |-> r.i] ELSE Fail(r.i)
    ELSE IF s[i] = "t" THEN ParseLiteral(s, i, <<"t", "r", "u", "e">>, VBool(TRUE))
    ELSE IF s[i] = "f" THEN ParseLiteral(s, i, <<"f", "a", "l", "s", "e">>, VBool(FALSE))
    ELSE IF s[i] = "n" THEN ParseLiteral(s, i, <<"n", "u", "l", "l">>, VNull)
    ELSE IF s[i] = "-" \/ IsDigit(s[i]) THEN ParseNumber(s, i)
    ELSE Fail(i)

\* The members of an object after its "{", inserted into acc one by one
\* (visit_map, deser.rs:55-63).  On an error the result keeps what was
\* inserted before it.  A key is a borrowed &str: a key holding an escape
\* cannot be borrowed and is an error.
ParseMembers(s, i0, first, acc) ==
    LET i == SkipWs(s, i0)
        bad == [ok |-> FALSE, m |-> acc, i |-> i]
    IN
    IF i > Len(s) THEN bad
    ELSE IF s[i] = "}" THEN [ok |-> TRUE, m |-> acc, i |-> i + 1]
    ELSE IF ~first /\ s[i] # "," THEN bad
    ELSE
        LET k0 == IF first THEN i ELSE SkipWs(s, i + 1) IN
        IF k0 > Len(s) \/ s[k0] # QUOTE THEN bad
        ELSE
            LET key == ScanStr(s, k0 + 1, <<>>, FALSE) IN
            IF ~key.ok \/ key.esc THEN bad
            ELSE
                LET c == SkipWs(s, key.i) IN
                IF c > Len(s) \/ s[c] # ":" THEN bad
                ELSE
                    LET val == ParseValue(s, c + 1) IN
                    IF ~val.ok THEN bad
                    ELSE ParseMembers(s, val.i, FALSE, Insert(acc, key.s, val.v))

\* The elements of an array after its "[".
ParseElems(s, i0, first, acc) ==
    LET i == SkipWs(s, i0)
        bad == [ok |-> FALSE, a |-> acc, i |-> i]
    IN
    IF i > Len(s) THEN bad
    ELSE IF s[i] = "]" THEN [ok |-> TRUE, a |-> acc, i |-> i + 1]
    ELSE IF ~first /\ s[i] # "," THEN bad
    ELSE
        LET val == ParseValue(s, IF first THEN i ELSE i + 1) IN
        IF ~val.ok THEN bad
        ELSE ParseElems(s, val.i, FALSE, Append(acc, val.v))

\* seed.deserialize(&mut deserializer), main.rs:144-156: deserialize_map skips
\* whitespace, wants "{", and hands the members to visit_map, which inserts
\* them into the reusable map.  Deserializer::end is never called, so what
\* follows the closing brace is not looked at.
Deserialize(line, map) ==
    LET i == SkipWs(line, 1) IN
    IF i > Len(line) \/ line[i] # "{" THEN [ok |-> FALSE, m |-> map]
    ELSE
        LET r == ParseMembers(line, i + 1, TRUE, map)
        IN  [ok |-> r.ok, m |-> r.m]

(***************************************************************************)
(* Numbers: Display of serde_json::Number and of i64, Number::as_i64.      *)
(***************************************************************************)
NumberDisplay(n) ==
    (IF n.neg THEN <<"-">> ELSE <<>>) \o n.int
        \o (IF n.kind = "Float" THEN <<".">> \o n.frac ELSE <<>>)

I64(neg, d) == [neg |-> neg, d |-> d]

I64Zero == I64(FALSE, <<"0">>)

I64Display(x) == (IF x.neg THEN <<"-">> ELSE <<>>) \o x.d

\* num.as_i64().unwrap_or_default(), main.rs:217: a float, or a PosInt above
\* i64::MAX, has no i64 and becomes the default 0.
AsI64OrDefault(n) ==
    IF n.kind = "Float" THEN I64Zero
    ELSE IF n.kind = "PosInt" /\ DigitsGt(n.int, I64_MAX) THEN I64Zero
    ELSE I64(n.neg, n.int)

\* main.rs:20
YEAR_3K_EPOCH == <<"3", "2", "5", "0", "3", "6", "9", "8", "0", "0", "0">>

\* timestamp > YEAR_3K_EPOCH
GtYear3K(x) == ~x.neg /\ DigitsGt(x.d, YEAR_3K_EPOCH)

\* timestamp / 1000 (the quotient truncates toward zero)
Div1000(x) ==
    LET q == IF Len(x.d) <= 3 THEN <<"0">> ELSE SubSeq(x.d, 1, Len(x.d) - 3)
    IN  I64(x.neg /\ q # <<"0">>, q)

RECURSIVE DigitsToInt(_, _)
DigitsToInt(d, acc) ==
    IF d = <<>> THEN acc ELSE DigitsToInt(Tail(d), acc * 10 + DigitVal(Head(d)))

\* timestamp % 1000 (the remainder has the sign of the dividend)
Rem1000(x) ==
    LET m == DigitsToInt(IF Len(x.d) <= 3 THEN x.d
                         ELSE SubSeq(x.d, Len(x.d) - 2, Len(x.d)), 0)
    IN  IF x.neg THEN 0 - m ELSE m

\* `as u32` of an i64 of magnitude below 2^31, as two 16-bit halves: a
\* negative value wraps to 2^32 - |v|.
AsU32(v) ==
    IF v >= 0 THEN [hi |-> v \div 65536, lo |-> v % 65536]
    ELSE [hi |-> 65535 - ((0 - v - 1) \div 65536), lo |-> 65535 - ((0 - v - 1) % 65536)]

U32Lt(u, hi, lo) == u.hi < hi \/ (u.hi = hi /\ u.lo < lo)

(***************************************************************************)
(* chrono: DateTime::<Utc>::from_timestamp and format.                     *)
(***************************************************************************)
\* Long division of a digit string by n: [q, r].
RECURSIVE LongDiv(_, _, _, _)
LongDiv(d, n, q, r) ==
    IF d = <<>> THEN [q |-> q, r |-> r]
    ELSE LET cur == r * 10 + DigitVal(Head(d))
         IN  LongDiv(Tail(d), n, q * 10 + (cur \div n), cur % n)

\* secs.div_euclid(86_400) and secs.rem_euclid(86_400)
EuclidDay(neg, m) ==
    IF ~neg THEN [days |-> m.q, sod |-> m.r]
    ELSE IF m.r = 0 THEN [days |-> 0 - m.q, sod |-> 0]
    ELSE [days |-> 0 - m.q - 1, sod |-> 86400 - m.r]

DivRemEuclidDay(x) == EuclidDay(x.neg, LongDiv(x.d, 86400, 0, 0))

\* The proleptic Gregorian date of a day number counted from 1970-01-01.
CivilFromDays(days) ==
    LET z == days + 719468
        era == z \div 146097
        doe == z - era * 146097
        yoe == (doe - (doe \div 1460) + (doe \div 36524) - (doe \div 146096)) \div 365
        doy == doe - (365 * yoe + (yoe \div 4) - (yoe \div 100))
        mp == (5 * doy + 2) \div 153
        d == doy - ((153 * mp + 2) \div 5) + 1
        m == IF mp < 10 THEN mp + 3 ELSE mp - 9
        y == yoe + era * 400 + (IF m <= 2 THEN 1 ELSE 0)
    IN  [y |-> y, m |-> m, d |-> d]

\* NaiveDate::MIN.year() and NaiveDate::MAX.year()
MIN_YEAR == 0 - 262143
MAX_YEAR == 262142

\* from_timestamp(secs, nsecs): None when the day is outside NaiveDate's
\* range or the nanoseconds are 2 seconds or more (or a leap-second value,
\* 1 second or more, in a second that is not :59).
DateTimeOf(date, sod, nsecs) ==
    IF date.y < MIN_YEAR \/ date.y > MAX_YEAR THEN [some |-> FALSE]
    ELSE IF ~U32Lt(nsecs, 30517, 37888) THEN [some |-> FALSE]
    ELSE IF ~U32Lt(nsecs, 15258, 51712) /\ sod % 60 # 59 THEN [some |-> FALSE]
    ELSE [some |-> TRUE, date |-> date, sod |-> sod, nano |-> nsecs.hi * 65536 + nsecs.lo]

DateTimeAt(dr, nsecs) == DateTimeOf(CivilFromDays(dr.days), dr.sod, nsecs)

FromTimestamp(secs, nsecs) ==
    IF Len(secs.d) > 13 THEN [some |-> FALSE]
    ELSE DateTimeAt(DivRemEuclidDay(secs), nsecs)

RECURSIVE IntDigits(_)
IntDigits(n) ==
    IF n < 10 THEN <<DigitChar(n)>> ELSE Append(IntDigits(n \div 10), DigitChar(n % 10))

RECURSIVE PadLeft(_, _)
PadLeft(d, w) == IF Len(d) >= w THEN d ELSE PadLeft(<<"0">> \o d, w)

Pad(n, w) == PadLeft(IntDigits(n), w)

\* %Y: four digits for the years 0..9999, otherwise a sign and the year.
FormatYear(y) ==
    IF y >= 0 /\ y <= 9999 THEN Pad(y, 4)
    ELSE IF y < 0 THEN <<"-">> \o Pad(0 - y, 4)
    ELSE <<"+">> \o Pad(y, 4)

\* dt.format("%Y-%m-%dT%H:%M:%SZ"), main.rs:294
FormatDateTime(dt) ==
    FormatYear(dt.date.y) \o <<"-">> \o Pad(dt.date.m, 2) \o <<"-">> \o Pad(dt.date.d, 2)
        \o <<"T">> \o Pad(dt.sod \div 3600, 2) \o <<":">> \o Pad((dt.sod \div 60) % 60, 2)
        \o <<":">> \o Pad(dt.sod % 60, 2)

FormatSeconds(dt) == FormatDateTime(dt) \o <<"Z">>

\* dt.format("%Y-%m-%dT%H:%M:%S.%3fZ"), main.rs:302
FormatMillis(dt) ==
    FormatDateTime(dt) \o <<".">> \o Pad(dt.nano \div 1000000, 3) \o <<"Z">>

(***************************************************************************)
(* Styler (styler.rs).  A style is the text of its SGR parameters; the     *)
(* empty text is Style::new(), which writes nothing around the value.      *)
(***************************************************************************)
PlainStyle == <<>>

\* owo_colors Styled: prefix ESC [ codes m, the value, suffix ESC [ 0 m.
Styled(text, style) ==
    IF style = PlainStyle THEN text
    ELSE <<ESC, "[">> \o style \o <<"m">> \o text \o <<ESC, "[", "0", "m">>

timestamp_style(colorize) == IF ~colorize THEN PlainStyle ELSE <<"2">>

\* depth_style without the early return for colorize = false
depth_styleIgnoresColorize(colorize, depth) ==
    CASE depth % 6 = 0 -> <<"3", "4">>
      [] depth % 6 = 1 -> <<"3", "6">>
      [] depth % 6 = 2 -> <<"3", "2">>
      [] depth % 6 = 3 -> <<"3", "4", ";", "2">>
      [] depth % 6 = 4 -> <<"3", "6", ";", "2">>
      [] depth % 6 = 5 -> <<"3", "2", ";", "2">>

depth_style(colorize, depth) ==
    IF ~colorize THEN PlainStyle
    ELSE CASE depth % 6 = 0 -> <<"3", "4">>
           [] depth % 6 = 1 -> <<"3", "6">>
           [] depth % 6 = 2 -> <<"3", "2">>
           [] depth % 6 = 3 -> <<"3", "4", ";", "2">>
           [] depth % 6 = 4 -> <<"3", "6", ";", "2">>
           [] depth % 6 = 5 -> <<"3", "2", ";", "2">>

UpperChars == <<"A", "B", "C", "D", "E", "F", "G", "I", "L", "M", "N", "O", "R", "T", "U", "W">>
LowerChars == <<"a", "b", "c", "d", "e", "f", "g", "i", "l", "m", "n", "o", "r", "t", "u", "w">>

AsciiLower(c) ==
    IF \E i \in 1..Len(UpperChars) : UpperChars[i] = c
    THEN LowerChars[CHOOSE i \in 1..Len(UpperChars) : UpperChars[i] = c]
    ELSE c

\* unicase::Ascii equality
AsciiEq(a, b) ==
    Len(a) = Len(b) /\ \A i \in 1..Len(a) : AsciiLower(a[i]) = AsciiLower(b[i])

\* level_style comparing with == on the strings instead of unicase::Ascii
level_styleCaseSensitive(colorize, level) ==
    IF ~colorize THEN PlainStyle
    ELSE IF level \in {<<"c", "r", "i", "t">>, <<"c", "r", "i", "t", "i", "c", "a", "l">>}
        THEN <<"3", "1", ";", "1">>
    ELSE IF level = <<"e", "r", "r", "o", "r">> THEN <<"3", "1">>
    ELSE IF level \in {<<"w", "a", "r", "n">>, <<"w", "a", "r", "n", "i", "n", "g">>}
        THEN <<"3", "3">>
    ELSE IF level = <<"i", "n", "f", "o">> THEN <<"3", "6">>
    ELSE IF level = <<"d", "e", "b", "u", "g">> THEN <<"3", "4", ";", "2">>
    ELSE IF level = <<"t", "r", "a", "c", "e">> THEN <<"2">>
    ELSE PlainStyle

level_style(colorize, level) ==
    IF ~colorize THEN PlainStyle
    ELSE IF AsciiEq(level, <<"c", "r", "i", "t">>)
            \/ AsciiEq(level, <<"c", "r", "i", "t", "i", "c", "a", "l">>)
        THEN <<"3", "1", ";", "1">>
    ELSE IF AsciiEq(level, <<"e", "r", "r", "o", "r">>) THEN <<"3", "1">>
    ELSE IF AsciiEq(level, <<"w", "a", "r", "n">>)
            \/ AsciiEq(level, <<"w", "a", "r", "n", "i", "n", "g">>)
        THEN <<"3", "3">>
    ELSE IF AsciiEq(level, <<"i", "n", "f", "o">>) THEN <<"3", "6">>
    ELSE IF AsciiEq(level, <<"d", "e", "b", "u", "g">>) THEN <<"3", "4", ";", "2">>
    ELSE IF AsciiEq(level, <<"t", "r", "a", "c", "e">>) THEN <<"2">>
    ELSE PlainStyle

(***************************************************************************)
(* try_format_datetime, main.rs:264-312                                    *)
(***************************************************************************)
MillisOf(timestamp) ==
    FromTimestamp(Div1000(timestamp), AsU32(Rem1000(timestamp) * 1000000))

SecondsOf(timestamp) == FromTimestamp(timestamp, AsU32(0))

\* main.rs:289-309: what is written for the conversion result
FormatResult(iso_datetime, tsfmt, timestamp, style) ==
    IF iso_datetime.some /\ tsfmt = "Seconds" THEN Styled(FormatSeconds(iso_datetime), style)
    ELSE IF iso_datetime.some /\ tsfmt = "Millis" THEN Styled(FormatMillis(iso_datetime), style)
    ELSE Styled(I64Display(timestamp), style)

\* main.rs:270-287: the conversion under the resolved format
Convert(tsfmt, timestamp, colorize) ==
    FormatResult(IF tsfmt = "Millis" THEN MillisOf(timestamp) ELSE SecondsOf(timestamp),
                 tsfmt, timestamp, timestamp_style(colorize))

\* main.rs:272-279: Auto resolves to Millis above the threshold, else Seconds
ResolveFormat(timestamp_format, timestamp) ==
    IF timestamp_format = "Auto"
    THEN (IF GtYear3K(timestamp) THEN "Millis" ELSE "Seconds")
    ELSE timestamp_format

try_format_datetime(timestamp_format, timestamp, colorize) ==
    Convert(ResolveFormat(timestamp_format, timestamp), timestamp, colorize)

(***************************************************************************)
(* display_value_recursive, main.rs:314-374                                *)
(***************************************************************************)
\* str::replace of one character by a text
RECURSIVE Replace(_, _, _)
Replace(s, c, rep) ==
    IF s = <<>> THEN <<>>
    ELSE (IF Head(s) = c THEN rep ELSE <<Head(s)>>) \o Replace(Tail(s), c, rep)

\* EscapeString with the two replacements the other way round
EscapeStringQuotesFirst(s) ==
    Replace(Replace(s, QUOTE, <<BSLASH, QUOTE>>), BSLASH, <<BSLASH, BSLASH>>)

\* s.replace('\\', r"\\").replace('"', r#"\""#), main.rs:331
EscapeString(s) == Replace(Replace(s, BSLASH, <<BSLASH, BSLASH>>), QUOTE, <<BSLASH, QUOTE>>)

\* main.rs:330
NeedsQuotes(s) == Contains(s, SP) \/ Contains(s, QUOTE) \/ Contains(s, BSLASH)

BoolDisplay(b) == IF b THEN <<"t", "r", "u", "e">> ELSE <<"f", "a", "l", "s", "e">>

RECURSIVE display_value_recursive(_, _, _, _)
RECURSIVE DisplayMembers(_, _, _, _)
RECURSIVE DisplayElems(_, _, _, _)

\* main.rs:328-339: a scalar after its styled prefix and separator
DisplayScalar(value, head) ==
    CASE value.t = "String" ->
            IF NeedsQuotes(value.s)
            THEN head \o <<QUOTE>> \o EscapeString(value.s) \o <<QUOTE>>
            ELSE head \o value.s
      [] value.t = "Number" -> head \o NumberDisplay(value.n)
      [] value.t = "Bool" -> head \o BoolDisplay(value.b)
      [] value.t = "Null" -> head \o <<"n", "u", "l", "l">>

\* main.rs:341-372: an object or an array between its styled brackets
DisplayNested(value, prefix, depth, colorize, style) ==
    IF value.t = "Object"
    THEN Styled(prefix \o <<"{">>, style) \o DisplayMembers(value.m, 1, depth, colorize)
            \o Styled(<<"}">>, style)
    ELSE Styled(prefix \o <<"[">>, style) \o DisplayElems(value.a, 1, depth, colorize)
            \o Styled(<<"]">>, style)

\* DisplayHead as it was before the empty prefix was told apart: the
\* separator is written for every child, keyed or not
DisplayHeadAlwaysSep(prefix, style) == Styled(prefix, style) \o <<"=">>

\* main.rs:322-326: the styled prefix and the separator
DisplayHead(prefix, style) ==
    IF prefix = <<>> THEN <<>> ELSE Styled(prefix, style) \o <<"=">>

DisplayStyled(value, prefix, depth, colorize, style) ==
    IF value.t = "Removed" THEN <<>>
    ELSE IF value.t \in {"Object", "Array"}
        THEN DisplayNested(value, prefix, depth, colorize, style)
    ELSE DisplayScalar(value, DisplayHead(prefix, style))

display_value_recursive(value, prefix, depth, colorize) ==
    DisplayStyled(value, prefix, depth, colorize, depth_style(colorize, depth))

\* main.rs:344-352: the children of an object from the i-th on
DisplayMembers(m, i, depth, colorize) ==
    IF i > Len(m) THEN <<>>
    ELSE (IF i > 1 THEN <<SP>> ELSE <<>>)
            \o display_value_recursive(m[i].v, m[i].k, depth + 1, colorize)
            \o DisplayMembers(m, i + 1, depth, colorize)

\* main.rs:359-368: the children of an array from the i-th on
DisplayElems(a, i, depth, colorize) ==
    IF i > Len(a) THEN <<>>
    ELSE (IF i > 1 THEN <<SP>> ELSE <<>>)
            \o display_value_recursive(a[i], <<>>, depth + 1, colorize)
            \o DisplayElems(a, i + 1, depth, colorize)

(***************************************************************************)
(* json_to_logfmt, main.rs:188-262.  What it writes is a sequence of       *)
(* writes [kind, key, text]: kind "sep" is a separating space, "bare" a    *)
(* priority value, "keyed" a body field, "nl" the line break before a      *)
(* deferred field and "deferred" the deferred field.                       *)
(***************************************************************************)
Write(kind, key, text) == [kind |-> kind, key |-> key, text |-> text]

\* main.rs:202-206 and 242-244: a space unless nothing came before
WithSep(writes, first) ==
    IF ~first THEN Append(writes, Write("sep", <<>>, <<SP>>)) ELSE writes

\* main.rs:208-214
PriorityString(key, s, a) ==
    IF key = a.level_field THEN Styled(s, level_style(a.colorize, s)) ELSE s

\* main.rs:217-222
PriorityTimestamp(timestamp, a) ==
    IF a.timestamp_format # "Raw"
    THEN try_format_datetime(a.timestamp_format, timestamp, a.colorize)
    ELSE I64Display(timestamp)

\* main.rs:215-226
PriorityNumber(key, num, a) ==
    IF key = a.timestamp_field THEN PriorityTimestamp(AsI64OrDefault(num), a)
    ELSE NumberDisplay(num)

\* PriorityValue without line 229: the slot is not marked Removed
PriorityValueKeepsSlot(a, key, idx, value, st, w1) ==
    IF value.t = "String" THEN
        [map |-> st.map, first |-> FALSE,
         writes |-> Append(w1, Write("bare", key, PriorityString(key, value.s, a)))]
    ELSE IF value.t = "Number" THEN
        [map |-> st.map, first |-> FALSE,
         writes |-> Append(w1, Write("bare", key, PriorityNumber(key, value.n, a)))]
    ELSE [map |-> st.map, first |-> FALSE, writes |-> w1]

\* main.rs:207-229: the value of a present priority field, after the space
PriorityValue(a, key, idx, value, st, w1) ==
    IF value.t = "String" THEN
        [map |-> [st.map EXCEPT ![idx].v = Removed], first |-> FALSE,
         writes |-> Append(w1, Write("bare", key, PriorityString(key, value.s, a)))]
    ELSE IF value.t = "Number" THEN
        [map |-> [st.map EXCEPT ![idx].v = Removed], first |-> FALSE,
         writes |-> Append(w1, Write("bare", key, PriorityNumber(key, value.n, a)))]
    ELSE [map |-> st.map, first |-> FALSE, writes |-> w1]

\* main.rs:201: one name of no_key_fields; idx is its slot in the map
PriorityAt(a, key, idx, st) ==
    IF idx = 0 THEN st
    ELSE PriorityValue(a, key, idx, st.map[idx].v, st, WithSep(st.writes, st.first))

\* main.rs:200-231: the priority loop from the i-th name of no_key_fields on.
\* st is [map, first, writes].
RECURSIVE PriorityPhase(_, _, _)
PriorityPhase(a, i, st) ==
    IF i > Len(a.no_key_fields) THEN st
    ELSE PriorityPhase(a, i + 1,
            PriorityAt(a, a.no_key_fields[i], IndexOf(st.map, a.no_key_fields[i]), st))

\* BodyAt without main.rs:236: a consumed slot is handed to
\* display_value_recursive like any other value
BodyAtKeepsRemoved(a, key, value, i, st) ==
    IF value.t = "String" /\ Contains(value.s, LF)
        THEN [st EXCEPT !.newline_fields = Append(@, i - 1)]
    ELSE [first |-> FALSE, newline_fields |-> st.newline_fields,
          writes |-> Append(WithSep(st.writes, st.first),
                            Write("keyed", key,
                                  display_value_recursive(value, key, 0, a.colorize)))]

\* main.rs:235-248: one slot of the body loop; i is its 1-based position and
\* newline_fields takes the 0-based one
BodyAt(a, key, value, i, st) ==
    IF value.t = "Removed" THEN st
    ELSE IF value.t = "String" /\ Contains(value.s, LF)
        THEN [st EXCEPT !.newline_fields = Append(@, i - 1)]
    ELSE [first |-> FALSE, newline_fields |-> st.newline_fields,
          writes |-> Append(WithSep(st.writes, st.first),
                            Write("keyed", key,
                                  display_value_recursive(value, key, 0, a.colorize)))]

\* main.rs:234-249: the body loop from slot i on.  st is
\* [first, writes, newline_fields].
RECURSIVE BodyPhase(_, _, _, _)
BodyPhase(a, m, i, st) ==
    IF i > Len(m) THEN st
    ELSE BodyPhase(a, m, i + 1, BodyAt(a, m[i].k, m[i].v, i, st))

\* main.rs:253-258: one deferred field
NewlineAt(a, e) ==
    <<Write("nl", <<>>, <<LF>>),
      Write("deferred", e.k, display_value_recursive(e.v, e.k, 0, a.colorize))>>

\* main.rs:252-259: the deferred fields from the i-th recorded index on
RECURSIVE NewlinePhase(_, _, _, _)
NewlinePhase(a, m, nf, i) ==
    IF i > Len(nf) THEN <<>>
    ELSE NewlineAt(a, m[nf[i] + 1]) \o NewlinePhase(a, m, nf, i + 1)

\* main.rs:233-261: the body and newline phases after the priority phase p
AfterPriority(a, p, b) ==
    [map |-> p.map,
     newline_fields |-> b.newline_fields,
     writes |-> b.writes \o NewlinePhase(a, p.map, b.newline_fields, 1)]

BodyOf(a, p) ==
    AfterPriority(a, p, BodyPhase(a, p.map, 1,
        [first |-> p.first, writes |-> p.writes, newline_fields |-> <<>>]))

json_to_logfmt(m, a) ==
    BodyOf(a, PriorityPhase(a, 1, [map |-> m, first |-> TRUE, writes |-> <<>>]))

RECURSIVE TextOf(_)
TextOf(writes) == IF writes = <<>> THEN <<>> ELSE Head(writes).text \o TextOf(Tail(writes))

(***************************************************************************)
(* Inputs.  A line is built from JSON source text, so that the parser has  *)
(* to decode it; shape records how the line was built.                     *)
(***************************************************************************)
MaxFields == 2
MaxPrio == 2
MaxLines == 2

Kt == <<"t">>
Kl == <<"l">>
Km == <<"m">>
Ka == <<"a">>
Kn == <<"n">>

Quoted(s) == <<QUOTE>> \o s \o <<QUOTE>>

TS_2021 == <<"1", "6", "2", "7", "4", "9", "4", "0", "0", "0">>

NestedText ==
    <<"{">> \o Quoted(<<"k">>) \o <<":">> \o Quoted(<<"v">>) \o <<",">>
        \o Quoted(<<"r">>) \o <<":", "[", "1", ",", "2", "]", "}">>

Field(k, v) == [k |-> k, v |-> v]

\* The fields a generated object draws from: key and JSON text of the value.
FieldPool ==
    { Field(Kt, TS_2021),
      Field(Kl, Quoted(<<"i", "n", "f", "o">>)),
      Field(Km, Quoted(<<"a", SP, "b">>)),
      Field(Km, Quoted(<<"a", BSLASH, "n", "b">>)),
      Field(Ka, <<"t", "r", "u", "e">>),
      Field(Ka, <<"n", "u", "l", "l">>),
      Field(Kn, NestedText),
      Field(Km, Quoted(<<BSLASH, "u", "0", "0", "1", "b", "z">>)) }

PrioKeys == {Kt, Kl, Km, Ka}

SeqsUpTo(S, n) == UNION { [1..k -> S] : k \in 0..n }

RECURSIVE MembersText(_, _)
MembersText(fields, i) ==
    IF i > Len(fields) THEN <<>>
    ELSE (IF i > 1 THEN <<",">> ELSE <<>>)
            \o Quoted(fields[i].k) \o <<":">> \o fields[i].v
            \o MembersText(fields, i + 1)

ObjectText(fields) == <<"{">> \o MembersText(fields, 1) \o <<"}">>

\* A line item: the text of the line, how it was built, and the fields of
\* the object it was built from.
Line(text, shape, fields) == [text |-> text, shape |-> shape, fields |-> fields]

ObjectLine(fields) == Line(ObjectText(fields), "object", fields)

Args(nkf, colorize, tsfmt) ==
    [no_key_fields |-> nkf, colorize |-> colorize, timestamp_format |-> tsfmt,
     timestamp_field |-> Kt, level_field |-> Kl]

Scenario(a, lines, term) == [args |-> a, lines |-> lines, term |-> term]

\* The field lists of the generated objects
Objects == SeqsUpTo(FieldPool, MaxFields)

\* Digit characters from digits
Dg(ds) == [i \in 1..Len(ds) |-> DigitChar(ds[i])]

\* Lines that are not one JSON object: built from an object by cutting it
\* short, by text after it, or by whitespace before it, and lines of text.
Suffixes == { <<"x">>, <<SP, "x">>, <<"{", "}">>, <<",">>, <<"}">> }

Prefixes == { <<SP>>, <<"\t">>, <<SP, SP>> }

Cuts(fields) ==
    { Line(SubSeq(ObjectText(fields), 1, n), "truncated", fields) :
        n \in 1..(Len(ObjectText(fields)) - 1) }

TextLines ==
    { Line(<<"h", "i", SP, "x">>, "text", <<>>),
      Line(<<>>, "text", <<>>),
      Line(<<"[", "1", "]">>, "text", <<>>),
      Line(<<"7">>, "text", <<>>),
      Line(Quoted(<<"s">>), "text", <<>>),
      Line(<<"x", ESC, "[", "1", "m">>, "text", <<>>),
      Line(<<SP, "h", "i">>, "text", <<>>),
      Line(<<"a", "\r">>, "text", <<>>) }

MalformedLines ==
    { Line(<<"{", "a", "l", "s", "o", SP, "n", "o", "t", SP, "j", "s", "o", "n", "}">>,
           "malformed", <<>>),
      Line(<<"{">> \o Quoted(Ka) \o <<":", "1", ",", "}">>, "malformed", <<>>),
      Line(<<"{">> \o Quoted(Ka) \o <<SP, "1", "}">>, "malformed", <<>>),
      Line(<<"{">> \o Quoted(Ka) \o <<":", "0", "1", "}">>, "malformed", <<>>),
      Line(<<"{">> \o Quoted(Ka) \o <<":", "1", ",">> \o Quoted(<<"b", BSLASH, "n">>)
               \o <<":", "2", "}">>, "malformed", <<>>),
      Line(<<"{">> \o Quoted(Ka) \o <<":", "1", ",">> \o Quoted(Km) \o <<":">>
               \o Quoted(<<"x", ESC>>) \o <<"}">>, "malformed", <<>>),
      Line(<<"{">> \o Quoted(Ka) \o <<":", "[", "1", ",", "]", "}">>, "malformed", <<>>) }

\* The lines built around the object of the fields fs
OddLines(fs) ==
    Cuts(fs)
    \cup { Line(ObjectText(fs) \o sfx, "trailing", fs) : sfx \in Suffixes }
    \cup { Line(pre \o ObjectText(fs), "leadws", fs) : pre \in Prefixes }
    \cup { Line(ObjectText(fs) \o <<SP>>, "object", fs) }

PlainScenarios ==
    { Scenario(Args(nkf, c, "Seconds"), <<ln>>, TRUE) :
        nkf \in {<<>>, <<Kt, Kl>>}, c \in BOOLEAN, ln \in TextLines \cup MalformedLines }

\* Numbers for the timestamp field, as JSON text
TsTexts ==
    { <<"0">>, TS_2021, YEAR_3K_EPOCH,
      Dg(<<3, 2, 5, 0, 3, 6, 9, 8, 0, 0, 1>>),
      TS_2021 \o <<"1", "2", "3">>,
      Dg(<<8, 2, 1, 0, 2, 6, 6, 8, 7, 6, 7, 9, 9>>),
      Dg(<<8, 2, 1, 0, 2, 6, 6, 8, 7, 6, 8, 0, 0>>),
      Dg(<<8, 2, 1, 0, 2, 6, 6, 8, 7, 6, 7, 9, 9, 9, 9, 9>>),
      Dg(<<8, 2, 1, 0, 2, 6, 6, 8, 7, 6, 8, 0, 0, 0, 0, 0>>),
      I64_MAX,
      Dg(<<9, 2, 2, 3, 3, 7, 2, 0, 3, 6, 8, 5, 4, 7, 7, 5, 8, 0, 8>>),
      <<"-", "1">>, <<"-", "1", "5", "0", "0">>, <<"-", "2", "0", "0", "0">>,
      <<"-">> \o Dg(<<8, 3, 3, 4, 6, 0, 1, 2, 2, 8, 8, 0, 0>>),
      <<"-">> \o Dg(<<8, 3, 3, 4, 6, 0, 1, 2, 2, 8, 8, 0, 1>>),
      <<"-">> \o Dg(<<8, 3, 3, 4, 6, 0, 1, 2, 2, 8, 8, 0, 0, 0, 0, 0>>),
      <<"1", ".", "5">>, <<"-", "0">> }

TimestampFormats == {"Auto", "Seconds", "Millis", "Raw"}

TimestampScenarios ==
    { Scenario(Args(nkf, c, f), <<ObjectLine(<<Field(Kt, n)>>)>>, TRUE) :
        nkf \in {<<>>, <<Kt>>}, c \in BOOLEAN, f \in TimestampFormats, n \in TsTexts }

\* Lines for inputs of several lines
MixLines ==
    { ObjectLine(<<Field(Kt, TS_2021), Field(Kl, Quoted(<<"i", "n", "f", "o">>))>>),
      ObjectLine(<<Field(Km, Quoted(<<"a", BSLASH, "n">>)), Field(Ka, <<"1">>)>>),
      Line(<<"h", "i">>, "text", <<>>),
      Line(<<>>, "text", <<>>),
      Line(<<"z", BAD>>, "unreadable", <<>>),
      Line(<<"{">> \o Quoted(Ka) \o <<":", "1", ",">> \o Quoted(Km), "truncated",
           <<Field(Ka, <<"1">>)>>) }

MixScenarios ==
    { Scenario(Args(nkf, c, "Auto"), lines, term) :
        nkf \in {<<Kt, Kl>>, <<Km>>}, c \in BOOLEAN, term \in BOOLEAN,
        lines \in { ls \in SeqsUpTo(MixLines, MaxLines) :
                      ls # <<>> /\ ls[Len(ls)].text # <<>> } }

\* Nested values, as JSON text
NestedTexts ==
    { NestedText,
      <<"[", "]">>,
      <<"{", "}">>,
      <<"[", "[", "1", "]", ",", "{">> \o Quoted(<<"k">>) \o <<":", "n", "u", "l", "l", "}", "]">>,
      <<"[">> \o Quoted(<<>>) \o <<",">> \o Quoted(<<"x">>) \o <<"]">>,
      <<"{">> \o Quoted(<<"k">>) \o <<":">> \o Quoted(<<>>) \o <<"}">>,
      <<"[">> \o Quoted(<<"a", SP, "b">>) \o <<",", "t", "r", "u", "e", "]">>,
      <<"{">> \o Quoted(<<"k">>) \o <<":", "{">> \o Quoted(<<"j">>) \o <<":", "[", "2", "]", "}", "}">> }

NestedScenarios ==
    { Scenario(Args(nkf, c, "Seconds"), <<ObjectLine(pre \o <<Field(Kn, n)>>)>>, TRUE) :
        nkf \in {<<>>, <<Kn>>, <<Kl, Kn>>}, c \in BOOLEAN, n \in NestedTexts,
        pre \in {<<>>, <<Field(Kl, Quoted(<<"i", "n", "f", "o">>))>>} }

\* Level names in several cases, and strings that are no level name
LevelTexts ==
    { <<"c", "r", "i", "t">>, <<"C", "R", "I", "T", "I", "C", "A", "L">>,
      <<"E", "r", "r", "o", "r">>, <<"w", "a", "r", "n">>,
      <<"W", "A", "R", "N", "I", "N", "G">>, <<"i", "n", "f", "o">>,
      <<"D", "e", "b", "u", "g">>, <<"T", "R", "A", "C", "E">>,
      <<"f", "a", "t", "a", "l">>, <<>>, <<"i", "n", "f">>,
      <<"i", "n", "f", "o", "s">>, <<"w", "a", "r", "n", "i", "n">> }

LevelScenarios ==
    { Scenario(Args(nkf, c, "Seconds"), <<ObjectLine(<<Field(Kl, Quoted(l))>>)>>, TRUE) :
        nkf \in {<<>>, <<Kl>>}, c \in BOOLEAN, l \in LevelTexts }

\* String values with quotes and backslashes, as JSON text
StringTexts ==
    { Quoted(<<"a", BSLASH, QUOTE, "b">>),
      Quoted(<<"a", BSLASH, BSLASH, "b">>),
      Quoted(<<BSLASH, BSLASH, BSLASH, QUOTE>>),
      Quoted(<<BSLASH, QUOTE, BSLASH, BSLASH>>),
      Quoted(<<BSLASH, QUOTE, SP, BSLASH, "n">>),
      Quoted(<<"x", "=", "y">>),
      Quoted(<<"a", SP, SP, "b">>),
      Quoted(<<>>) }

StringScenarios ==
    { Scenario(Args(<<>>, c, "Seconds"), <<ObjectLine(<<Field(k, s)>>)>>, TRUE) :
        c \in BOOLEAN, k \in {Km, Kl}, s \in StringTexts }

\* Objects with a repeated key and with several deferred fields
OrderLines ==
    { ObjectLine(<<Field(Km, Quoted(<<"a", BSLASH, "n", "b">>)),
                   Field(Ka, <<"t", "r", "u", "e">>),
                   Field(Kl, Quoted(<<"x", BSLASH, "n", "y">>)),
                   Field(Ka, <<"n", "u", "l", "l">>),
                   Field(Kn, <<"[", "1", "]">>)>>),
      ObjectLine(<<Field(Ka, <<"t", "r", "u", "e">>),
                   Field(Km, Quoted(<<"a", SP, "b">>)),
                   Field(Ka, Quoted(<<"p", BSLASH, "n", "q">>)),
                   Field(Kt, TS_2021)>>) }

OrderScenarios ==
    { Scenario(Args(nkf, c, "Seconds"), <<ln>>, TRUE) :
        nkf \in {<<>>, <<Kl>>, <<Ka, Kt>>}, c \in BOOLEAN, ln \in OrderLines }

Scenarios ==
    PlainScenarios \cup TimestampScenarios \cup MixScenarios \cup NestedScenarios
        \cup LevelScenarios \cup StringScenarios \cup OrderScenarios

\* The bytes of standard input: the lines, a line break after each but
\* possibly the last.
RECURSIVE StreamOf(_, _)
StreamOf(lines, term) ==
    IF lines = <<>> THEN <<>>
    ELSE Head(lines).text
            \o (IF Len(lines) > 1 \/ term THEN <<LF>> ELSE <<>>)
            \o StreamOf(Tail(lines), term)

(***************************************************************************)
(* State                                                                   *)
(***************************************************************************)
VARIABLES
    args,            \* Args, main.rs:24-55 (color already resolved by Styler::new)
    src,             \* the line items standard input was built from
    stdin,           \* all the bytes of standard input
    input,           \* the bytes of standard input not read yet
    pc,              \* where transform_lines / process_line stands
    json_line,       \* the line process_line was given
    result,          \* what seed.deserialize returned: "Ok", "Err" or "none"
    map,             \* reusable.map
    newline_fields,  \* reusable.newline_fields
    out,             \* the bytes written to out
    pending,         \* the bytes of out that stdout's LineWriter still holds
    hist             \* one entry per line handled: what was read and written

vars ==
    <<args, src, stdin, input, pc, json_line, result, map, newline_fields, out, pending, hist>>

\* main.rs:72-84: the arguments are parsed and standard input is locked
Started(sc) ==
    /\ args = sc.args
    /\ src = sc.lines
    /\ stdin = StreamOf(sc.lines, sc.term)
    /\ input = stdin

\* One generated object, every priority list, colour on and off.
StartedWithObject ==
    \E nkf \in SeqsUpTo(PrioKeys, MaxPrio), c \in BOOLEAN, fs \in Objects :
        Started(Scenario(Args(nkf, c, "Seconds"), <<ObjectLine(fs)>>, TRUE))

\* One line built around a generated object
StartedWithOddLine ==
    \E nkf \in {<<>>, <<Kt, Kl>>}, c \in BOOLEAN, fs \in Objects :
        \E ln \in OddLines(fs) :
            Started(Scenario(Args(nkf, c, "Seconds"), <<ln>>, TRUE))

Init ==
    /\ \/ StartedWithObject
       \/ StartedWithOddLine
       \/ \E sc \in Scenarios : Started(sc)
    /\ pc = "lines"
    /\ json_line = <<>>
    /\ result = "none"
    /\ map = <<>>
    /\ newline_fields = <<>>
    /\ out = <<>>
    /\ pending = <<>>
    /\ hist = <<>>

\* BufRead::lines: the bytes up to the next line break (or the end), the
\* line break dropped, and a "\r" before it dropped too.
RECURSIVE LineEnd(_, _)
LineEnd(s, i) == IF i > Len(s) \/ s[i] = LF THEN i ELSE LineEnd(s, i + 1)

NextChunk == SubSeq(input, 1, LineEnd(input, 1) - 1)

RestAfterChunk == SubSeq(input, LineEnd(input, 1) + 1, Len(input))

StripCr(s) == IF s # <<>> /\ s[Len(s)] = "\r" THEN SubSeq(s, 1, Len(s) - 1) ELSE s

\* stdout.lock(), main.rs:80-81: standard output is a LineWriter.  A write
\* without a line break is buffered; a write with one sends the buffer and
\* the bytes up to the last line break to the descriptor and buffers the
\* rest.  (The buffer holds 1024 bytes, more than a record of the model.)
RECURSIVE AfterLastBreak(_)
AfterLastBreak(bytes) ==
    IF bytes = <<>> \/ bytes[Len(bytes)] = LF THEN <<>>
    ELSE Append(AfterLastBreak(SubSeq(bytes, 1, Len(bytes) - 1)), bytes[Len(bytes)])

\* A writer that sends its buffer only when it is full (BufWriter)
BlockWrite(buffer, bytes) == buffer \o bytes

LineWrite(buffer, bytes) ==
    IF Contains(bytes, LF) THEN AfterLastBreak(bytes) ELSE buffer \o bytes

\* The buffer after the writes of bytes, one write call each
RECURSIVE LineWrites(_, _)
LineWrites(buffer, calls) ==
    IF calls = <<>> THEN buffer
    ELSE LineWrites(LineWrite(buffer, Head(calls)), Tail(calls))

TextsOf(writes) == [j \in 1..Len(writes) |-> writes[j].text]

Entry(line, path, doc, writes, text) ==
    [line |-> line, path |-> path, doc |-> doc, writes |-> writes, text |-> text]

\* main.rs:120-124: the next line is read and handed to process_line
ReadLineOk ==
    /\ pc = "lines"
    /\ input # <<>>
    /\ Head(input) # IOERR
    /\ ~Contains(NextChunk, BAD)
    /\ json_line' = StripCr(NextChunk)
    /\ input' = RestAfterChunk
    /\ pc' = "deserialize"
    /\ UNCHANGED <<args, src, stdin, result, map, newline_fields, out, pending, hist>>

\* ReadLineErr ending the run as a `?` on the line would
ReadLineErrAborts ==
    /\ pc = "lines"
    /\ input # <<>>
    /\ Contains(NextChunk, BAD)
    /\ pc' = "done"
    /\ UNCHANGED
        <<args, src, stdin, input, json_line, result, map, newline_fields, out, pending, hist>>

\* main.rs:125-128: the line cannot be read (it is not UTF-8)
ReadLineErr ==
    /\ pc = "lines"
    /\ input # <<>>
    /\ Contains(NextChunk, BAD)
    /\ input' = RestAfterChunk
    /\ out' = out \o <<LF>>
    /\ pending' = LineWrite(pending, <<LF>>)
    /\ hist' = Append(hist, Entry(<<>>, "readerr", <<>>, <<>>, <<LF>>))
    /\ UNCHANGED <<args, src, stdin, pc, json_line, result, map, newline_fields>>

\* main.rs:144-156
Deserialized(r) ==
    /\ map' = r.m
    /\ result' = IF r.ok THEN "Ok" ELSE "Err"

DeserializeLine ==
    /\ pc = "deserialize"
    /\ Deserialized(Deserialize(json_line, map))
    /\ pc' = "match"
    /\ UNCHANGED <<args, src, stdin, input, json_line, newline_fields, out, pending, hist>>

\* Formatted with the blank line of the failure branch (main.rs:170)
\* written on the success path as well
FormattedExtraBreak(r, text) ==
    /\ map' = r.map
    /\ newline_fields' = r.newline_fields
    /\ out' = out \o <<LF>> \o text \o <<LF>>
    /\ pending' = LineWrites(pending, <<<<LF>>>> \o TextsOf(r.writes) \o <<<<LF>>>>)
    /\ hist' = Append(hist, Entry(json_line, "rendered", map, r.writes,
                                  <<LF>> \o text \o <<LF>>))

\* main.rs:159-174: the line parsed; json_to_logfmt writes the record and
\* writeln ends it
Formatted(r, text) ==
    /\ map' = r.map
    /\ newline_fields' = r.newline_fields
    /\ out' = out \o text \o <<LF>>
    /\ pending' = LineWrites(pending, TextsOf(r.writes) \o <<<<LF>>>>)
    /\ hist' = Append(hist, Entry(json_line, "rendered", map, r.writes, text \o <<LF>>))

FormattedAs(r) == Formatted(r, TextOf(r.writes))

FormatLine ==
    /\ pc = "match"
    /\ result = "Ok"
    /\ FormattedAs(json_to_logfmt(map, args))
    /\ pc' = "clear"
    /\ UNCHANGED <<args, src, stdin, input, json_line, result>>

\* main.rs:175-182: the line did not parse and is written as it was read
PassThrough ==
    /\ pc = "match"
    /\ result = "Err"
    /\ out' = out \o json_line \o <<LF>>
    /\ pending' = LineWrites(pending, <<json_line, <<LF>>>>)
    /\ hist' = Append(hist, Entry(json_line, "passthrough", map, <<>>, json_line \o <<LF>>))
    /\ pc' = "clear"
    /\ UNCHANGED <<args, src, stdin, input, json_line, result, map, newline_fields>>

\* ClearReusable without main.rs:184: the map keeps the fields of the line
ClearReusableKeepsMap ==
    /\ pc = "clear"
    /\ newline_fields' = <<>>
    /\ result' = "none"
    /\ json_line' = <<>>
    /\ pc' = "lines"
    /\ UNCHANGED <<args, src, stdin, input, map, out, pending, hist>>

\* ClearReusable without main.rs:185: newline_fields keeps the indices of
\* the line
ClearReusableKeepsIndex ==
    /\ pc = "clear"
    /\ map' = <<>>
    /\ result' = "none"
    /\ json_line' = <<>>
    /\ pc' = "lines"
    /\ UNCHANGED <<args, src, stdin, input, newline_fields, out, pending, hist>>

\* main.rs:184-185
ClearReusable ==
    /\ pc = "clear"
    /\ map' = <<>>
    /\ newline_fields' = <<>>
    /\ result' = "none"
    /\ json_line' = <<>>
    /\ pc' = "lines"
    /\ UNCHANGED <<args, src, stdin, input, out, pending, hist>>

\* main.rs:120, 130-131: lines() is exhausted and transform_lines returns
EndOfInput ==
    /\ pc = "lines"
    /\ input = <<>>
    /\ pc' = "done"
    /\ UNCHANGED
        <<args, src, stdin, input, json_line, result, map, newline_fields, out, pending, hist>>

Next ==
    \/ ReadLineOk
    \/ ReadLineErr
    \/ DeserializeLine
    \/ FormatLine
    \/ PassThrough
    \/ ClearReusable
    \/ EndOfInput

Spec == Init /\ [][Next]_vars

(***************************************************************************)
(* Properties                                                              *)
(***************************************************************************)
Handled == 1..Len(hist)

IsValueWrite(w) == w.kind \in {"bare", "keyed", "deferred"}

\* How many writes of the record render the field named k
TimesRendered(writes, k) ==
    Cardinality({ j \in 1..Len(writes) : IsValueWrite(writes[j]) /\ writes[j].key = k })

StartsWithBrace(line) == line # <<>> /\ line[1] = "{"

\* C1: a line whose first character is not "{" is written as it was read,
\* followed by one line break, and nothing else is written for it.
C1_PassThroughUnlessBrace ==
    \A i \in Handled :
        (hist[i].path # "readerr" /\ ~StartsWithBrace(hist[i].line))
            => hist[i].text = hist[i].line \o <<LF>>

\* C2: a line that starts with "{" and is not exactly one JSON object (cut
\* short, malformed, or an object followed by more text) is a parse error and
\* is written as it was read, followed by one line break.
C2_NotOneObjectPassesThrough ==
    \A i \in Handled :
        (src[i].shape \in {"truncated", "malformed", "trailing"}
            /\ StartsWithBrace(hist[i].line))
            => /\ hist[i].path = "passthrough"
               /\ hist[i].text = hist[i].line \o <<LF>>

\* C3: every top-level field of a line that parses as an object is rendered
\* exactly once in its record, whatever the priority list names.
C3_EveryFieldOnce ==
    \A i \in Handled :
        /\ src[i].shape = "object" =>
              /\ hist[i].path = "rendered"
              /\ \A j \in 1..Len(src[i].fields) :
                    TimesRendered(hist[i].writes, src[i].fields[j].k) = 1
        /\ hist[i].path = "rendered" =>
              /\ \A j \in 1..Len(hist[i].doc) :
                    TimesRendered(hist[i].writes, hist[i].doc[j].k) = 1
              /\ \A j \in 1..Len(hist[i].writes) :
                    IsValueWrite(hist[i].writes[j])
                        => IndexOf(hist[i].doc, hist[i].writes[j].key) # 0

\* C3 witness: an object with two fields was rendered under a priority list
\* that names one field twice, the field holding a boolean.
C3_Witness ==
    \E i \in Handled :
        /\ hist[i].path = "rendered"
        /\ args.no_key_fields = <<Ka, Ka>>
        /\ Len(hist[i].doc) = 2
        /\ IndexOf(hist[i].doc, Ka) # 0
        /\ hist[i].doc[IndexOf(hist[i].doc, Ka)].v.t = "Bool"

IsPriority(k) == \E n \in 1..Len(args.no_key_fields) : args.no_key_fields[n] = k

FirstNamedAt(k) ==
    CHOOSE n \in 1..Len(args.no_key_fields) :
        /\ args.no_key_fields[n] = k
        /\ \A n2 \in 1..(n - 1) : args.no_key_fields[n2] # k

\* C4: every priority field present in the object is rendered before every
\* other field, and the priority fields come in the order of the list,
\* whatever the type of their value.
C4_PriorityFieldsFirstInOrder ==
    \A i \in Handled :
        hist[i].path = "rendered" =>
            \A p, q \in 1..Len(hist[i].writes) :
                (p < q /\ IsValueWrite(hist[i].writes[p]) /\ IsValueWrite(hist[i].writes[q])
                    /\ IsPriority(hist[i].writes[q].key))
                    => /\ IsPriority(hist[i].writes[p].key)
                       /\ FirstNamedAt(hist[i].writes[p].key)
                            <= FirstNamedAt(hist[i].writes[q].key)

HasLineBreak(v) == v.t = "String" /\ Contains(v.s, LF)

\* C5: every top-level string holding a line break, priority field or not,
\* is rendered after the fields that hold none, right after a line break of
\* its own, as key=value.
C5_LineBreakFieldsDeferred ==
    \A i \in Handled :
        hist[i].path = "rendered" =>
            \A j \in 1..Len(hist[i].doc) :
                HasLineBreak(hist[i].doc[j].v) =>
                    \E q \in 2..Len(hist[i].writes) :
                        /\ hist[i].writes[q].kind = "deferred"
                        /\ hist[i].writes[q].key = hist[i].doc[j].k
                        /\ hist[i].writes[q - 1].kind = "nl"
                        /\ \A p \in (q + 1)..Len(hist[i].writes) :
                              hist[i].writes[p].kind \in {"nl", "deferred"}

\* The writes of the first physical line: those before the first deferred one
FirstLineLen(writes) ==
    IF \E j \in 1..Len(writes) : writes[j].kind = "nl"
    THEN (CHOOSE j \in 1..Len(writes) :
            /\ writes[j].kind = "nl"
            /\ \A j2 \in 1..(j - 1) : writes[j2].kind # "nl") - 1
    ELSE Len(writes)

\* C6: on the first physical line of a record the rendered fields are
\* separated by exactly one space, with no space before the first or after
\* the last: field, space, field, ..., field.
C6_SingleSeparatingSpaces ==
    \A i \in Handled :
        hist[i].path = "rendered" =>
            LET n == FirstLineLen(hist[i].writes) IN
            /\ n = 0 \/ n % 2 = 1
            /\ \A j \in 1..n :
                IF j % 2 = 1 THEN IsValueWrite(hist[i].writes[j])
                ELSE hist[i].writes[j].kind = "sep"

IsNested(v) == v.t \in {"Object", "Array"}

\* Texts joined by single spaces
RECURSIVE JoinSp(_)
JoinSp(ts) ==
    IF ts = <<>> THEN <<>>
    ELSE IF Len(ts) = 1 THEN ts[1]
    ELSE ts[1] \o <<SP>> \o JoinSp(Tail(ts))

\* The layout C7 describes: key, bracket, the children joined by single
\* spaces (key=value in an object, the bare value in an array), bracket.
RECURSIVE NestedLayout(_, _)
ChildLayout(k, v) ==
    IF IsNested(v) THEN NestedLayout(k, v)
    ELSE (IF k = <<>> THEN <<>> ELSE k \o <<"=">>) \o DisplayScalar(v, <<>>)

NestedLayout(k, v) ==
    IF v.t = "Object"
    THEN k \o <<"{">> \o JoinSp([j \in 1..Len(v.m) |-> ChildLayout(v.m[j].k, v.m[j].v)])
            \o <<"}">>
    ELSE k \o <<"[">> \o JoinSp([j \in 1..Len(v.a) |-> ChildLayout(<<>>, v.a[j])])
            \o <<"]">>

\* No space right after an opening brace or bracket, none right before a
\* closing one
NoPadding(text) ==
    \A p \in 1..Len(text) :
        /\ (text[p] \in {"{", "["} /\ p < Len(text)) => text[p + 1] # SP
        /\ (text[p] \in {"}", "]"} /\ p > 1) => text[p - 1] # SP

\* Does the value hold, at any depth, a string that renders as no text?
RECURSIVE HasEmptyString(_)
HasEmptyString(v) ==
    CASE v.t = "String" -> v.s = <<>>
      [] v.t = "Object" -> \E j \in 1..Len(v.m) : HasEmptyString(v.m[j].v)
      [] v.t = "Array" -> \E j \in 1..Len(v.a) : HasEmptyString(v.a[j])
      [] OTHER -> FALSE

LinesIn(bytes) ==
    CountChar(bytes, LF) + (IF bytes # <<>> /\ bytes[Len(bytes)] # LF THEN 1 ELSE 0)

\* What a record holds before its line break
RecordContent(i) ==
    CASE hist[i].path = "readerr" -> <<>>
      [] hist[i].path = "passthrough" -> StripCr(src[i].text)
      [] hist[i].path = "rendered" -> TextOf(hist[i].writes)

\* C8: the output is, in input order, one record per input line handled so
\* far (a rendered record, the line itself, or nothing for a line that could
\* not be read), each followed by exactly one line break; when the input is
\* exhausted there is one record for every line of standard input.
C8_OneRecordPerLine ==
    /\ Len(hist) <= Len(src)
    /\ \A i \in Handled : (hist[i].path = "readerr") = (src[i].shape = "unreadable")
    /\ out = Flatten([i \in Handled |-> RecordContent(i) \o <<LF>>])
    /\ pc = "done" => Len(hist) = LinesIn(stdin)

\* C8 witness: the input is exhausted; it held an unreadable line and then a
\* JSON object, and its last line had no line break.
C8_Witness ==
    /\ pc = "done"
    /\ Len(hist) = 2
    /\ hist[1].path = "readerr"
    /\ hist[2].path = "rendered"
    /\ stdin[Len(stdin)] # LF

\* The escape characters a line holds: raw, or written as \u001b
EscapesIn(line) ==
    CountChar(line, ESC)
        + Cardinality({ p \in 1..(Len(line) - 5) :
                          SubSeq(line, p, p + 5) = <<BSLASH, "u", "0", "0", "1", "b">> })

\* C9 as stated: with colour disabled the output holds no escape character.
C9_NoEscapeInOutput == ~args.colorize => ~Contains(out, ESC)

\* C9 as amended: with colour disabled the program adds no escape sequence of
\* its own: a record holds no more escape characters than its input line
\* holds, raw or as \u001b in JSON strings.
C9_NoEscapeAdded ==
    ~args.colorize =>
        \A i \in Handled : CountChar(hist[i].text, ESC) <= EscapesIn(hist[i].line)

\* C9 witness: with colour disabled, a JSON object with a keyed field and a
\* string holding an escape character was rendered.
C9_Witness ==
    /\ ~args.colorize
    /\ \E i \in Handled :
          /\ hist[i].path = "rendered"
          /\ Contains(hist[i].text, ESC)
          /\ \E j \in 1..Len(hist[i].writes) : hist[i].writes[j].kind = "keyed"

\* Without the styling that colour puts around a timestamp
Unstyled(text) ==
    IF text # <<>> /\ text[1] = ESC THEN SubSeq(text, 5, Len(text) - 4) ELSE text

\* ...-MM-DDTHH:MM:SSZ
IsSecondsText(x) ==
    /\ Len(x) >= 20
    /\ x[Len(x)] = "Z" /\ x[Len(x) - 3] = ":" /\ x[Len(x) - 6] = ":"
    /\ x[Len(x) - 9] = "T" /\ x[Len(x) - 12] = "-" /\ x[Len(x) - 15] = "-"

\* ...-MM-DDTHH:MM:SS.mmmZ
IsMillisText(x) ==
    /\ Len(x) >= 24
    /\ x[Len(x)] = "Z" /\ x[Len(x) - 4] = "."
    /\ IsSecondsText(SubSeq(x, 1, Len(x) - 5) \o <<"Z">>)

\* Is the JSON number text an integer, and is it above the threshold?
IsIntegerText(n) == ~Contains(n, ".") /\ n # <<"-", "0">>

AboveYear3K(n) == n[1] # "-" /\ DigitsGt(n, YEAR_3K_EPOCH)

\* C10: under Auto an integer timestamp above 32503698000 is written as
\* milliseconds and any other as seconds; under Seconds and Millis the
\* configured form is written.  (Where the instant has no calendar date the
\* number itself is written instead.)
C10_AutoThreshold ==
    \A i \in Handled :
        (/\ hist[i].path = "rendered"
         /\ args.no_key_fields = <<Kt>>
         /\ args.timestamp_format # "Raw"
         /\ Len(src[i].fields) = 1
         /\ src[i].fields[1].k = Kt
         /\ IsIntegerText(src[i].fields[1].v))
        => LET n == src[i].fields[1].v
               x == Unstyled(hist[i].writes[1].text)
               millis == \/ args.timestamp_format = "Millis"
                         \/ args.timestamp_format = "Auto" /\ AboveYear3K(n)
           IN  \/ x = n
               \/ millis /\ IsMillisText(x)
               \/ ~millis /\ IsSecondsText(x)

\* Is the text wrapped in the dimmed style, ESC[2m ... ESC[0m?
IsDimmed(x) ==
    /\ Len(x) >= 8
    /\ SubSeq(x, 1, 4) = <<ESC, "[", "2", "m">>
    /\ SubSeq(x, Len(x) - 3, Len(x)) = <<ESC, "[", "0", "m">>

\* A record of one object whose only field is the timestamp field, which is
\* the only priority field
IsTimestampRecord(i) ==
    /\ hist[i].path = "rendered"
    /\ args.no_key_fields = <<Kt>>
    /\ Len(src[i].fields) = 1
    /\ src[i].fields[1].k = Kt

\* C11: with colour enabled the numeric timestamp priority field is written
\* in the dimmed timestamp style under every timestamp format, Raw and the
\* raw-integer fallback included.
C11_TimestampAlwaysDimmed ==
    \A i \in Handled :
        (IsTimestampRecord(i) /\ args.colorize) => IsDimmed(hist[i].writes[1].text)

\* The decimal digits of d + 1
RECURSIVE IncDigits(_)
IncDigits(d) ==
    IF d = <<>> THEN <<"1">>
    ELSE IF d[Len(d)] # "9"
         THEN SubSeq(d, 1, Len(d) - 1) \o <<DigitChar(DigitVal(d[Len(d)]) + 1)>>
         ELSE IncDigits(SubSeq(d, 1, Len(d) - 1)) \o <<"0">>

\* Milliseconds split into whole seconds, rounded down, and a remainder in
\* 0..999
FloorMillis(x) ==
    IF Rem1000(x) >= 0 THEN [secs |-> Div1000(x), ms |-> Rem1000(x)]
    ELSE [secs |-> I64(TRUE, IncDigits(Div1000(x).d)), ms |-> Rem1000(x) + 1000]

\* The calendar instant of a millisecond value, if it has one
InstantOfMillis(x) ==
    FromTimestamp(FloorMillis(x).secs, AsU32(FloorMillis(x).ms * 1000000))

\* The timestamp of a timestamp record is an integer that fits an i64
HoldsI64(i) ==
    /\ hist[i].doc[1].v.t = "Number"
    /\ hist[i].doc[1].v.n.kind # "Float"
    /\ ~(hist[i].doc[1].v.n.kind = "PosInt" /\ DigitsGt(hist[i].doc[1].v.n.int, I64_MAX))

\* What C12 expects for the millisecond value x
MillisExpected(x, dt) == IF dt.some THEN FormatMillis(dt) ELSE I64Display(x)

\* C12: under Millis an integer that denotes a calendar instant, negative
\* ones included, is written as YYYY-MM-DDTHH:MM:SS.mmmZ of that instant
\* (seconds rounded down, remainder in 0..999); the integer itself is written
\* only when the instant is outside the calendar range.
C12_MillisOfEveryInstant ==
    \A i \in Handled :
        (IsTimestampRecord(i) /\ args.timestamp_format = "Millis" /\ HoldsI64(i)) =>
            Unstyled(hist[i].writes[1].text)
                = MillisExpected(AsI64OrDefault(hist[i].doc[1].v.n),
                                 InstantOfMillis(AsI64OrDefault(hist[i].doc[1].v.n)))

IsSuffix(s, text) ==
    Len(s) <= Len(text) /\ SubSeq(text, Len(text) - Len(s) + 1, Len(text)) = s

\* Some write of the record is for the field key and ends with the text wanted
WrittenAs(writes, key, wanted) ==
    \E j \in 1..Len(writes) :
        IsValueWrite(writes[j]) /\ writes[j].key = key /\ IsSuffix(wanted, writes[j].text)

IsI64Number(v) ==
    /\ v.t = "Number"
    /\ v.n.kind # "Float"
    /\ ~(v.n.kind = "PosInt" /\ DigitsGt(v.n.int, I64_MAX))

\* C13: the field named by timestamp_field, when it holds an integer, is
\* written as the timestamp format policy writes it, and the field named by
\* level_field, when it holds a string, is written in its level style,
\* whether or not the name is in no_key_fields.
C13_TimestampAndLevelAnywhere ==
    \A i \in Handled :
        hist[i].path = "rendered" =>
            \A j \in 1..Len(hist[i].doc) :
                LET f == hist[i].doc[j] IN
                /\ (f.k = args.timestamp_field /\ IsI64Number(f.v))
                      => WrittenAs(hist[i].writes, f.k,
                                   PriorityTimestamp(AsI64OrDefault(f.v.n), args))
                /\ (f.k = args.level_field /\ f.v.t = "String"
                        /\ ~NeedsQuotes(f.v.s) /\ ~Contains(f.v.s, LF))
                      => WrittenAs(hist[i].writes, f.k, PriorityString(f.k, f.v.s, args))

\* C14: when the next line is about to be read (and when the input is
\* exhausted) the writer holds no byte of the records written so far: every
\* byte written has been sent to standard output.
C14_FlushedBeforeNextRead == pc \in {"lines", "done"} => pending = <<>>

\* C14 witness: a record with a deferred field has been written, more input
\* follows, and the next line is about to be read.
C14_Witness ==
    /\ pc = "lines"
    /\ input # <<>>
    /\ Len(hist) = 1
    /\ hist[1].path = "rendered"
    /\ \E j \in 1..Len(hist[1].writes) : hist[1].writes[j].kind = "deferred"

\* What process_line writes for a line when the reusable map is empty
RecordOf(line, r) ==
    IF r.ok THEN TextOf(json_to_logfmt(r.m, args).writes) \o <<LF>> ELSE line \o <<LF>>

RecordAlone(line) == RecordOf(line, Deserialize(line, <<>>))

PriorityWrites(m, a) ==
    Len(PriorityPhase(a, 1, [map |-> m, first |-> TRUE, writes |-> <<>>]).writes)

\* Is the bare write a date written by try_format_datetime (main.rs:290-305)?
IsFormattedDate(w, a) ==
    /\ w.kind = "bare"
    /\ w.key = a.timestamp_field
    /\ a.timestamp_format # "Raw"
    /\ IsSecondsText(Unstyled(w.text)) \/ IsMillisText(Unstyled(w.text))

\* How the call site of the k-th write of a record treats a failure; np is
\* the number of writes of the priority loop.
\*   sep:      main.rs:203 `?` in the priority loop, :243 unwrap in the body
\*   bare:     main.rs:210, :212, :221, :224, :306 `?`; :290-305 unwrap
\*   keyed:    main.rs:245 `?`       nl: main.rs:253 unwrap
\*   deferred: main.rs:258 `?`
OnWriteFailure(w, k, np, a) ==
    CASE w.kind = "sep" -> IF k <= np THEN "return" ELSE "panic"
      [] w.kind = "bare" -> IF IsFormattedDate(w, a) THEN "panic" ELSE "return"
      [] w.kind = "nl" -> "panic"
      [] OTHER -> "return"

\* main.rs:160-173: json_to_logfmt returned the error of write k; a line
\* break and the line as it was read are written, then the line break of
\* line 173.
FellBack(r, k, text) ==
    /\ map' = r.map
    /\ newline_fields' = r.newline_fields
    /\ out' = out \o text
    /\ pending' = LineWrites(pending, <<text>>)
    /\ hist' = Append(hist, Entry(json_line, "renderfail", map, SubSeq(r.writes, 1, k - 1), text))
    /\ pc' = "clear"

WriteFailureReturnedIn(r, np) ==
    \E k \in 1..Len(r.writes) :
        /\ OnWriteFailure(r.writes[k], k, np, args) = "return"
        /\ FellBack(r, k, TextOf(SubSeq(r.writes, 1, k - 1))
                              \o <<LF>> \o json_line \o <<LF>> \o <<LF>>)

WriteFailureReturned ==
    /\ pc = "match"
    /\ result = "Ok"
    /\ WriteFailureReturnedIn(json_to_logfmt(map, args), PriorityWrites(map, args))
    /\ UNCHANGED <<args, src, stdin, input, json_line, result>>

\* The unwrap of write k panics: the process ends with what was written.
Panicked(r, k, text) ==
    /\ map' = r.map
    /\ newline_fields' = r.newline_fields
    /\ out' = out \o text
    /\ pending' = LineWrites(pending, <<text>>)
    /\ hist' = Append(hist, Entry(json_line, "panicked", map, SubSeq(r.writes, 1, k - 1), text))
    /\ pc' = "panicked"

WriteFailurePanicsIn(r, np) ==
    \E k \in 1..Len(r.writes) :
        /\ OnWriteFailure(r.writes[k], k, np, args) = "panic"
        /\ Panicked(r, k, TextOf(SubSeq(r.writes, 1, k - 1)))

WriteFailurePanics ==
    /\ pc = "match"
    /\ result = "Ok"
    /\ WriteFailurePanicsIn(json_to_logfmt(map, args), PriorityWrites(map, args))
    /\ UNCHANGED <<args, src, stdin, input, json_line, result>>

NextFail ==
    \/ Next
    \/ WriteFailureReturned
    \/ WriteFailurePanics

SpecFail == Init /\ [][NextFail]_vars

\* Does text hold s as a run of consecutive characters?
ContainsSeq(text, s) ==
    \E p \in 1..(Len(text) - Len(s) + 1) : SubSeq(text, p, p + Len(s) - 1) = s

\* C16: a write that fails while a record is composed never ends the
\* process; the record then holds a line break followed by the line as it
\* was read, and the run goes on with the next line.
C16_WriteFailureFallsBack ==
    /\ pc # "panicked"
    /\ \A i \in Handled :
          hist[i].path = "renderfail" =>
              ContainsSeq(hist[i].text, <<LF>> \o hist[i].line \o <<LF>>)
    /\ pc = "done" => Len(hist) = Len(src)

\* C17: the bytes written for a line depend on the line and the arguments
\* only: whatever lines came before it, the record of a line is the record
\* the line gets when the reusable map and newline_fields start empty.
C17_RecordDependsOnLineOnly ==
    \A i \in Handled :
        hist[i].path # "readerr" => hist[i].text = RecordAlone(hist[i].line)

\* C17 witness: an object was rendered right after a line whose parse failed
\* with a field already in the map.
C17_Witness ==
    /\ Len(hist) = 2
    /\ hist[1].path = "passthrough"
    /\ hist[1].doc # <<>>
    /\ hist[2].path = "rendered"
    /\ hist[2].writes # <<>>

\* The SGR parameters of the styles C18 names: red is 31, yellow 33, blue 34,
\* cyan 36, bold 1, dimmed 2
LevelTable ==
    { [name |-> <<"c", "r", "i", "t">>, codes |-> <<"3", "1", ";", "1">>],
      [name |-> <<"c", "r", "i", "t", "i", "c", "a", "l">>, codes |-> <<"3", "1", ";", "1">>],
      [name |-> <<"e", "r", "r", "o", "r">>, codes |-> <<"3", "1">>],
      [name |-> <<"w", "a", "r", "n">>, codes |-> <<"3", "3">>],
      [name |-> <<"w", "a", "r", "n", "i", "n", "g">>, codes |-> <<"3", "3">>],
      [name |-> <<"i", "n", "f", "o">>, codes |-> <<"3", "6">>],
      [name |-> <<"d", "e", "b", "u", "g">>, codes |-> <<"3", "4", ";", "2">>],
      [name |-> <<"t", "r", "a", "c", "e">>, codes |-> <<"2">>] }

Lowered(s) == [j \in 1..Len(s) |-> AsciiLower(s[j])]

\* The text C18 expects for the level string s
LevelExpected(s, colorize) ==
    IF colorize /\ \E e \in LevelTable : e.name = Lowered(s)
    THEN LET e == CHOOSE e \in LevelTable : e.name = Lowered(s)
         IN  <<ESC, "[">> \o e.codes \o <<"m">> \o s \o <<ESC, "[", "0", "m">>
    ELSE s

\* A record of one object whose only field is the level field, a string, and
\* the only priority field
IsLevelRecord(i) ==
    /\ hist[i].path = "rendered"
    /\ args.no_key_fields = <<Kl>>
    /\ Len(hist[i].doc) = 1
    /\ hist[i].doc[1].k = Kl
    /\ hist[i].doc[1].v.t = "String"
    /\ ~Contains(hist[i].doc[1].v.s, LF)

\* C18: with colour enabled the level string is written in the style of the
\* level it names, compared without regard to ASCII case (crit and critical
\* red bold, error red, warn and warning yellow, info cyan, debug blue
\* dimmed, trace dimmed), any other string unstyled; with colour disabled
\* every level string is written unstyled.
C18_LevelStyles ==
    \A i \in Handled :
        IsLevelRecord(i) =>
            hist[i].writes[1].text = LevelExpected(hist[i].doc[1].v.s, args.colorize)

\* C18 witness: with colour enabled the level CRITICAL was written red bold.
C18_Witness ==
    \E i \in Handled :
        /\ IsLevelRecord(i)
        /\ args.colorize
        /\ hist[i].writes[1].text =
              <<ESC, "[", "3", "1", ";", "1", "m", "C", "R", "I", "T", "I", "C", "A", "L",
                ESC, "[", "0", "m">>

\* One character as C19 escapes it
EscapedChar(c) ==
    IF c = BSLASH THEN <<BSLASH, BSLASH>>
    ELSE IF c = QUOTE THEN <<BSLASH, QUOTE>>
    ELSE <<c>>

\* The text C19 expects for the string s
StringExpected(s) ==
    IF \E j \in 1..Len(s) : s[j] \in {SP, QUOTE, BSLASH}
    THEN <<QUOTE>> \o Flatten([j \in 1..Len(s) |-> EscapedChar(s[j])]) \o <<QUOTE>>
    ELSE s

\* C19: display_value_recursive writes a string bare when it holds no space,
\* no double quote and no backslash; otherwise it writes it between double
\* quotes with every backslash doubled and every double quote preceded by one
\* backslash (which is not doubled in turn).
C19_StringQuoting ==
    \A i \in Handled :
        hist[i].path = "rendered" =>
            \A j \in 1..Len(hist[i].writes) :
                LET w == hist[i].writes[j] IN
                (w.kind \in {"keyed", "deferred"}
                    /\ hist[i].doc[IndexOf(hist[i].doc, w.key)].v.t = "String")
                => w.text = DisplayHead(w.key, depth_style(args.colorize, 0))
                              \o StringExpected(hist[i].doc[IndexOf(hist[i].doc, w.key)].v.s)

\* C19 witness: a string made of a backslash and a double quote was written
\* as a keyed field.
C19_Witness ==
    \E i \in Handled :
        /\ hist[i].path = "rendered"
        /\ Len(hist[i].doc) = 1
        /\ hist[i].doc[1].v.t = "String"
        /\ hist[i].doc[1].v.s = <<BSLASH, QUOTE>>
        /\ Len(hist[i].writes) = 1
        /\ hist[i].writes[1].kind = "keyed"
        /\ IsSuffix(<<QUOTE, BSLASH, BSLASH, BSLASH, QUOTE, QUOTE>>, hist[i].writes[1].text)

IsScalar(v) ==
    \/ v.t \in {"Number", "Bool", "Null"}
    \/ v.t = "String" /\ ~Contains(v.s, LF)

\* The last record is rendered and its map is still held (main.rs:174-183)
JustRendered == pc = "clear" /\ hist # <<>> /\ hist[Len(hist)].path = "rendered"

\* C20: a priority field that is present and holds a scalar (string, number,
\* boolean or null) is written in the priority phase as a bare value without
\* key=, a string verbatim without quotes or escaping, and its slot is then
\* the consumed marker.
C20_PriorityScalarsBare ==
    \A i \in Handled :
        hist[i].path = "rendered" =>
            \A j \in 1..Len(hist[i].doc) :
                LET f == hist[i].doc[j] IN
                (IsPriority(f.k) /\ IsScalar(f.v)) =>
                    /\ \E n \in 1..Len(hist[i].writes) :
                          /\ hist[i].writes[n].kind = "bare"
                          /\ hist[i].writes[n].key = f.k
                          /\ (f.v.t = "String" /\ f.k # args.level_field)
                                => hist[i].writes[n].text = f.v.s
                    /\ (i = Len(hist) /\ JustRendered) => map[j].v = Removed

\* C21: at every line boundary (process_line has returned after a rendered
\* record, after a render failure or after a parse failure, or has not been
\* called yet) the reusable map and newline_fields are empty; the map holds
\* fields only while the line they borrow from is alive, and the parser
\* starts from an empty map.
C21_ReusableEmptyAtLineBoundary ==
    /\ pc \in {"lines", "done", "deserialize"} => map = <<>> /\ newline_fields = <<>>
    /\ json_line = <<>> => map = <<>>

\* C21 witness: process_line has returned from a parse failure that left a
\* field in the map and then from a render failure.
C21_Witness ==
    /\ pc = "lines"
    /\ Len(hist) = 2
    /\ hist[1].path = "passthrough"
    /\ hist[1].doc # <<>>
    /\ hist[2].path = "renderfail"
    /\ hist[2].doc # <<>>

\* A slot the priority loop consumes: a named field holding a string or a
\* number
Consumed(e) == IsPriority(e.k) /\ e.v.t \in {"String", "Number"}

\* The keys of the slots from j on that are not consumed and that hold
\* (deferred) or do not hold (~deferred) a string with a line break
RECURSIVE RemainingKeys(_, _, _)
RemainingKeys(doc, j, deferred) ==
    IF j > Len(doc) THEN <<>>
    ELSE (IF ~Consumed(doc[j]) /\ HasLineBreak(doc[j].v) = deferred
          THEN <<doc[j].k>> ELSE <<>>)
            \o RemainingKeys(doc, j + 1, deferred)

\* The keys of the writes of one kind, in the order of the writes
RECURSIVE KeysWritten(_, _)
KeysWritten(writes, kind) ==
    IF writes = <<>> THEN <<>>
    ELSE (IF Head(writes).kind = kind THEN <<Head(writes).key>> ELSE <<>>)
            \o KeysWritten(Tail(writes), kind)

\* The keys of the fields of the JSON text in the order of their first
\* occurrence, and the last field a key occurs in
RECURSIVE FirstKeys(_, _)
FirstKeys(fields, j) ==
    IF j > Len(fields) THEN <<>>
    ELSE (IF \E j2 \in 1..(j - 1) : fields[j2].k = fields[j].k
          THEN <<>> ELSE <<fields[j].k>>)
            \o FirstKeys(fields, j + 1)

LastWith(fields, k) ==
    fields[CHOOSE j \in 1..Len(fields) :
              /\ fields[j].k = k
              /\ \A j2 \in (j + 1)..Len(fields) : fields[j2].k # k]

ValueAlone(field) == Deserialize(ObjectText(<<field>>), <<>>).m[1].v

ParseOrder(doc, fields) ==
    /\ [j \in 1..Len(doc) |-> doc[j].k] = FirstKeys(fields, 1)
    /\ \A j \in 1..Len(doc) : doc[j].v = ValueAlone(LastWith(fields, doc[j].k))

BodyInParseOrder(doc, writes) ==
    /\ KeysWritten(writes, "keyed") = RemainingKeys(doc, 1, FALSE)
    /\ KeysWritten(writes, "deferred") = RemainingKeys(doc, 1, TRUE)
    /\ \A p, q \in 1..Len(writes) :
          (writes[p].kind = "keyed" /\ writes[q].kind = "deferred") => p < q
    /\ \A p \in 1..Len(writes) :
          writes[p].kind \in {"keyed", "deferred"} =>
              writes[p].text # <<>>

DeferredIndexValid ==
    /\ \A n \in 1..Len(newline_fields) :
          /\ newline_fields[n] + 1 \in 1..Len(map)
          /\ HasLineBreak(map[newline_fields[n] + 1].v)
          /\ \A n2 \in 1..(n - 1) : newline_fields[n2] < newline_fields[n]
    /\ [n \in 1..Len(newline_fields) |-> map[newline_fields[n] + 1].k]
          = KeysWritten(hist[Len(hist)].writes, "deferred")

\* C22: the body loop renders the fields the priority loop did not consume
\* in the order the parser met their keys (a repeated key is one slot with
\* the last value), a consumed slot is never rendered there, the deferred
\* fields follow in that same order, and every index of newline_fields names
\* a slot of the map that holds a string with a line break.
C22_BodyInParseOrder ==
    /\ \A i \in Handled :
          hist[i].path = "rendered" =>
              /\ BodyInParseOrder(hist[i].doc, hist[i].writes)
              /\ src[i].shape = "object" => ParseOrder(hist[i].doc, src[i].fields)
    /\ JustRendered => DeferredIndexValid

\* C22 witness: a record was rendered from an object that repeats a key,
\* with a consumed slot, a body field and a deferred field.
C22_Witness ==
    /\ JustRendered
    /\ Len(src[Len(hist)].fields) > Len(map)
    /\ \E j \in 1..Len(map) : map[j].v.t = "Removed"
    /\ newline_fields # <<>>
    /\ KeysWritten(hist[Len(hist)].writes, "keyed") # <<>>

\* 3000-01-01T00:00:00Z as try_format_datetime writes seconds
MidnightOf3000 ==
    <<"3", "0", "0", "0", "-", "0", "1", "-", "0", "1", "T",
      "0", "0", ":", "0", "0", ":", "0", "0", "Z">>

\* C23: YEAR_3K_EPOCH is the number of seconds from 1970-01-01T00:00:00Z to
\* 3000-01-01T00:00:00Z: a timestamp field holding that number, read as
\* seconds, is written as 3000-01-01T00:00:00Z.
C23_Year3KEpochIsMidnight3000 ==
    \A i \in Handled :
        (/\ hist[i].path = "rendered"
         /\ args.no_key_fields = <<Kt>>
         /\ args.timestamp_format \in {"Seconds", "Auto"}
         /\ Len(src[i].fields) = 1
         /\ src[i].fields[1] = Field(Kt, YEAR_3K_EPOCH))
        => Unstyled(hist[i].writes[1].text) = MidnightOf3000

\* The Unix epoch as try_format_datetime writes it
EpochTexts ==
    { <<"0">>,
      <<"1", "9", "7", "0", "-", "0", "1", "-", "0", "1", "T",
        "0", "0", ":", "0", "0", ":", "0", "0", "Z">>,
      <<"1", "9", "7", "0", "-", "0", "1", "-", "0", "1", "T",
        "0", "0", ":", "0", "0", ":", "0", "0", ".", "0", "0", "0", "Z">> }

\* C24: the record of a number held by the timestamp field in priority
\* position shows that number: under Raw the number as it was read, under
\* the other formats a date or the number as it was read; a number that is
\* not a signed 64-bit integer is never written as 0 or as the Unix epoch.
C24_TimestampNumberKept ==
    \A i \in Handled :
        (/\ hist[i].path = "rendered"
         /\ args.no_key_fields = <<Kt>>
         /\ Len(src[i].fields) = 1
         /\ src[i].fields[1].k = Kt
         /\ hist[i].doc[1].v.t = "Number")
        => /\ args.timestamp_format = "Raw" =>
                Unstyled(hist[i].writes[1].text) = src[i].fields[1].v
           /\ args.timestamp_format # "Raw" =>
                \/ Unstyled(hist[i].writes[1].text) = src[i].fields[1].v
                \/ IsSecondsText(Unstyled(hist[i].writes[1].text))
                \/ IsMillisText(Unstyled(hist[i].writes[1].text))
           /\ (~IsI64Number(hist[i].doc[1].v) /\ src[i].fields[1].v # <<"-", "0">>) =>
                Unstyled(hist[i].writes[1].text) \notin EpochTexts

(***************************************************************************)
(* Termination.  SpecLive adds a descriptor whose read fails with an I/O   *)
(* error (standard input is a directory, or a device that fails after      *)
(* some bytes): IOERR marks the position at which every read fails.  The   *)
(* one thread of the program keeps running: weak fairness of the next step.*)
(***************************************************************************)
\* The records of failed reads that out and hist keep; the loop goes on
\* after them unrecorded, which keeps the state space finite.
MaxReadErrs == 2

AtReadFault == pc = "lines" /\ input # <<>> /\ Head(input) = IOERR

ReadErrsRecorded ==
    Cardinality({ i \in 1..Len(hist) : hist[i].path = "ioerr" })

\* main.rs:120-121: the read of the descriptor fails and Lines::next returns
\* Some(Err(e)).  Nothing was consumed; the next read fails again.
ReadLineIoErr ==
    /\ AtReadFault
    /\ pc' = "readfail"
    /\ UNCHANGED
        <<args, src, stdin, input, json_line, result, map, newline_fields, out, pending, hist>>

\* main.rs:125-129: the Err arm warns, writes a line break and the loop asks
\* lines() for the next item
WarnedReadFailure ==
    /\ pc = "readfail"
    /\ IF ReadErrsRecorded < MaxReadErrs
       THEN /\ out' = out \o <<LF>>
            /\ hist' = Append(hist, Entry(<<>>, "ioerr", <<>>, <<>>, <<LF>>))
       ELSE UNCHANGED <<out, hist>>
    /\ pending' = LineWrite(pending, <<LF>>)
    /\ pc' = "lines"
    /\ UNCHANGED <<args, src, stdin, input, json_line, result, map, newline_fields>>

NextLive ==
    \/ NextFail
    \/ ReadLineIoErr
    \/ WarnedReadFailure

\* The loop head: lines() is asked for the next item
AsksNextLine == pc = "lines" /\ NextLive

\* The body of the loop runs on to the loop head or to a panic.  In each of
\* these places a step of NextLive is possible (the parser, json_to_logfmt
\* and the writes are total) and every step leaves the place.
RunsLoopBody ==
    /\ pc \in {"deserialize", "match", "clear", "readfail"}
    /\ pc' \in {"match", "clear", "lines", "panicked"}

\* Standard input whose descriptor fails after the lines of sc
StartedFaulty(sc) ==
    /\ args = sc.args
    /\ src = sc.lines
    /\ stdin = StreamOf(sc.lines, TRUE) \o <<IOERR>>
    /\ input = stdin

InitLive ==
    /\ \/ \E sc \in MixScenarios : Started(sc)
       \/ \E sc \in MixScenarios : StartedFaulty(sc)
       \/ StartedFaulty(Scenario(Args(<<>>, FALSE, "Auto"), <<>>, TRUE))
    /\ pc = "lines"
    /\ json_line = <<>>
    /\ result = "none"
    /\ map = <<>>
    /\ newline_fields = <<>>
    /\ out = <<>>
    /\ pending = <<>>
    /\ hist = <<>>

SpecLive == InitLive /\ [][NextLive]_vars /\ WF_vars(AsksNextLine) /\ WF_pc(RunsLoopBody)

\* C25: transform_lines terminates on every input: the loop over lines()
\* ends, by the end of the input or by a fatal I/O error, also when reads
\* keep failing.
C25_TransformLinesTerminates == <>(pc \in {"done", "panicked"})

====
